---- MODULE Spec2Model ----
(***************************************************************************)
(* A model of package drum (decoder.go): DecodeFile reads a SPLICE file,   *)
(* validates it, checks the declared byte count, decodes the hardware      *)
(* version, the tempo and the track records, and Pattern.tracksAsString    *)
(* renders the tracks.                                                     *)
(*                                                                         *)
(* Bytes are numbers 0..255, a string is the sequence of its bytes.  Go    *)
(* indexes from 0 and TLA+ sequences from 1: Mem(c, i) is Go's backing     *)
(* array element i.  A Go slice has a length and a capacity; an index      *)
(* expression s[i] panics unless i < len(s), a slice expression s[a:b]     *)
(* panics unless a <= b <= cap(s).  Both are modelled as the code has      *)
(* them.                                                                   *)
(***************************************************************************)
EXTENDS Integers, Sequences, FiniteSets

\* ---------------------------------------------------------------- bounds

\* The most track records an input stream holds.
MaxTracks == 3
\* The longest instrument name of an input record.
MaxNameLen == 2
\* The most bytes a file holds beyond the declared count.
MaxTrail == 1

\* ------------------------------------------------------------- constants

\* Mutant of posStartTempo: the tempo taken 18 bytes into remaining.
posStartTempoAt18 == 32 - 14
\* Mutant of posFirstInstrument: the first record taken 22 bytes into
\* remaining.
posFirstInstrumentAt22 == 36 - 14
\* Mutant of szIdFld: the cursor moved past the id byte alone.
szIdFldOneByte == 4 - 3

szFileIDFld == 6
szPlatFld == 11
posRemBytesFld == 13
posStartOfData == 14
posStartTempo == 32
szTempoFld == 4
posFirstInstrument == 36
numSteps == 16
\* byteptr += 4: the width of a record's id field.
szIdFld == 4

\* bytes.MinRead, the least capacity ioutil.ReadFile gives its buffer.
MinRead == 512

\* The error values of the package: each errors.New call makes one identity.
ErrEmptySpliceFile == "ErrEmptySpliceFile"
ErrBadFileType == "ErrBadFileType"
ErrNoRemBytesFld == "ErrNoRemBytesFld"
ErrInvalidNumBytes == "ErrInvalidNumBytes"
\* The error ioutil.ReadFile returns for a path that cannot be read.
ErrReadFile == "ErrReadFile"
\* The error binary.Read returns when its reader holds too few bytes.
ErrUnexpectedEOF == "ErrUnexpectedEOF"
NoErr == "nil"

\* The message each error value carries (Error()).
ErrorMsg(e) ==
    CASE e = ErrEmptySpliceFile -> "Not a SPLICE file"
      [] e = ErrBadFileType -> "Not a SPLICE file"
      [] e = ErrNoRemBytesFld -> "Missing remaing-bytes field."
      [] e = ErrInvalidNumBytes -> "Bytes remaining is zero"
      [] OTHER -> e

\* "SPLICE"
FileID == <<83, 80, 76, 73, 67, 69>>

\* ------------------------------------------------------------ Go slices

Max(a, b) == IF a >= b THEN a ELSE b

\* Element i (from 0) of the backing array of buffer c: the file's bytes,
\* then the zeroed rest of the allocation.
Mem(c, i) == IF i < Len(c) THEN c[i + 1] ELSE 0

\* The bytes lo .. hi-1 of the backing array.
Bytes(c, lo, hi) == [k \in 1..(hi - lo) |-> Mem(c, lo + k - 1)]

\* s[i] does not panic.
IndexOK(i, len) == 0 <= i /\ i < len

\* s[lo:hi] does not panic.
SliceOK(lo, hi, cap) == 0 <= lo /\ lo <= hi /\ hi <= cap

\* The capacities ioutil.ReadFile gives a buffer of n bytes: the file size
\* plus bytes.MinRead, or (os.ReadFile) the size plus one and at least 512.
ReadFileCaps(n) == {n + MinRead, Max(n + 1, MinRead)}

\* bytes.TrimRight(b, "\x00")
RECURSIVE TrimRightZero(_)
TrimRightZero(b) ==
    IF Len(b) > 0 /\ b[Len(b)] = 0
    THEN TrimRightZero(SubSeq(b, 1, Len(b) - 1))
    ELSE b

\* binary.LittleEndian: the IEEE-754 bit pattern of the float32 read from
\* four bytes.  A float32 is represented by its 32 bits.
LittleEndianUint32(b) ==
    b[1] + 256 * b[2] + 65536 * b[3] + 16777216 * b[4]

\* binary.Read(buf, binary.LittleEndian, &p.tempo)
BinaryRead(b) ==
    IF Len(b) < szTempoFld
    THEN [val |-> 0, err |-> ErrUnexpectedEOF]
    ELSE [val |-> LittleEndianUint32(b), err |-> NoErr]

\* ------------------------------------------------------------ validation

\* Mutant of isValidateSplice: the length check accepts 13 bytes.
isValidateSpliceShortLen(c, cap) ==
    IF Len(c) = 0 THEN ErrEmptySpliceFile
    ELSE IF ~SliceOK(0, szFileIDFld, cap) THEN "panic"
    ELSE IF Bytes(c, 0, szFileIDFld) # FileID THEN ErrBadFileType
    ELSE IF Len(c) < posRemBytesFld THEN ErrNoRemBytesFld
    ELSE NoErr

\* Mutant of isValidateSplice: the length is checked before the file id.
isValidateSpliceLenFirst(c, cap) ==
    IF Len(c) = 0 THEN ErrEmptySpliceFile
    ELSE IF Len(c) < posRemBytesFld + 1 THEN ErrNoRemBytesFld
    ELSE IF ~SliceOK(0, szFileIDFld, cap) THEN "panic"
    ELSE IF Bytes(c, 0, szFileIDFld) # FileID THEN ErrBadFileType
    ELSE NoErr

\* Mutant of isValidateSplice: no check for an empty buffer.
isValidateSpliceNoEmpty(c, cap) ==
    IF ~SliceOK(0, szFileIDFld, cap) THEN "panic"
    ELSE IF Bytes(c, 0, szFileIDFld) # FileID THEN ErrBadFileType
    ELSE IF Len(c) < posRemBytesFld + 1 THEN ErrNoRemBytesFld
    ELSE NoErr

\* isValidateSplice(contents): nil, an error, or "panic".
isValidateSplice(c, cap) ==
    IF Len(c) = 0 THEN ErrEmptySpliceFile
    ELSE IF ~SliceOK(0, szFileIDFld, cap) THEN "panic"
    ELSE IF Bytes(c, 0, szFileIDFld) # FileID THEN ErrBadFileType
    ELSE IF Len(c) < posRemBytesFld + 1 THEN ErrNoRemBytesFld
    ELSE NoErr

\* The buffer positions isValidateSplice reads.
ValidateReads(c, cap) ==
    IF Len(c) = 0 \/ ~SliceOK(0, szFileIDFld, cap) THEN {}
    ELSE 0..(szFileIDFld - 1)

\* Mutant of CountTooLarge: <= for <.
CountTooLargeOrEqual(nbytes, reptdBytesRem) ==
    (nbytes - posRemBytesFld - 1) <= reptdBytesRem

\* uint(actualBytesRem) < reptdBytesRem, with actualBytesRem the length less
\* posRemBytesFld less one (never negative once the buffer is validated).
CountTooLarge(nbytes, reptdBytesRem) ==
    (nbytes - posRemBytesFld - 1) < reptdBytesRem

\* ---------------------------------------------------------- track records

NoTrack == [id |-> 0, name |-> <<>>, steps |-> <<>>]

\* Mutant of DecodeTrackAt: the steps are taken with a slice expression
\* (copy(t.steps[:], remaining[byteptr:byteptr+numSteps])), which is
\* checked against the capacity and not the length.
DecodeTrackAtSliced(c, cap, d, bp) ==
    LET base == posStartOfData
        bp1 == bp + szIdFld
        szname == Mem(c, base + bp1)
        bp2 == bp1 + 1
        bp3 == bp2 + szname
    IN  IF ~IndexOK(bp1, d)
        THEN [ok |-> FALSE, t |-> NoTrack, next |-> bp1,
              reads |-> {base + bp}]
        ELSE IF ~SliceOK(bp2, bp3 + numSteps, cap - base)
        THEN [ok |-> FALSE, t |-> NoTrack, next |-> bp2,
              reads |-> {base + bp, base + bp1}]
        ELSE [ok |-> TRUE,
              t |-> [id |-> Mem(c, base + bp),
                     name |-> Bytes(c, base + bp2, base + bp3),
                     steps |-> Bytes(c, base + bp3, base + bp3 + numSteps)],
              next |-> bp3 + numSteps,
              reads |-> {base + bp, base + bp1}
                        \cup {base + j : j \in bp2..(bp3 + numSteps - 1)}]

\* One pass of the track loop over remaining, whose element j is element
\* posStartOfData + j of the buffer c, whose length is d and whose capacity
\* is cap - posStartOfData; bp is byteptr (bp < d, the loop's condition).
\* ok is FALSE when an index or a slice expression panics; reads are the
\* buffer positions read up to there.
DecodeTrackAt(c, cap, d, bp) ==
    LET base == posStartOfData
        id == Mem(c, base + bp)
        bp1 == bp + szIdFld
        szname == Mem(c, base + bp1)
        bp2 == bp1 + 1
        bp3 == bp2 + szname
        rId == {base + bp}
        rLen == rId \cup {base + bp1}
        rName == rLen \cup {base + j : j \in bp2..(bp3 - 1)}
        rSteps == rName \cup
                  {base + bp3 + i : i \in {i \in 0..(numSteps - 1) : bp3 + i < d}}
    IN  IF ~IndexOK(bp1, d)
        THEN [ok |-> FALSE, t |-> NoTrack, next |-> bp1, reads |-> rId]
        ELSE IF ~SliceOK(bp2, bp3, cap - base)
        THEN [ok |-> FALSE, t |-> NoTrack, next |-> bp2, reads |-> rLen]
        ELSE IF \E i \in 0..(numSteps - 1) : ~IndexOK(bp3 + i, d)
        THEN [ok |-> FALSE, t |-> NoTrack, next |-> bp3, reads |-> rSteps]
        ELSE [ok |-> TRUE,
              t |-> [id |-> id,
                     name |-> Bytes(c, base + bp2, base + bp3),
                     steps |-> Bytes(c, base + bp3, base + bp3 + numSteps)],
              next |-> bp3 + numSteps,
              reads |-> rSteps]

\* ---------------------------------------------------------------- render

\* %d of an unsigned number, as ASCII digits.
RECURSIVE Decimal(_)
Decimal(n) ==
    IF n < 10 THEN <<48 + n>>
    ELSE Decimal(n \div 10) \o <<48 + (n % 10)>>

\* Mutant of StepStr: every non-zero step is "x".
RECURSIVE StepStrNonZero(_, _)
StepStrNonZero(steps, j) ==
    IF j >= Len(steps) THEN <<>>
    ELSE (IF steps[j + 1] # 0 THEN <<120>> ELSE <<45>>)
         \o (IF (j + 1) % 4 = 0 THEN <<124>> ELSE <<>>)
         \o StepStrNonZero(steps, j + 1)

\* The inner loop of tracksAsString over steps[from..]: "x" for a step
\* equal to 1, "-" otherwise, and "|" after every fourth step.
RECURSIVE StepStr(_, _)
StepStr(steps, j) ==
    IF j >= Len(steps) THEN <<>>
    ELSE (IF steps[j + 1] = 1 THEN <<120>> ELSE <<45>>)
         \o (IF (j + 1) % 4 = 0 THEN <<124>> ELSE <<>>)
         \o StepStr(steps, j + 1)

\* fmt.Sprintf("(%d) %s\t|%s\n", t.id, t.name, stepstr)
TrackLine(t) ==
    <<40>> \o Decimal(t.id) \o <<41, 32>> \o t.name \o <<9, 124>>
    \o StepStr(t.steps, 0) \o <<10>>

\* (p *Pattern) tracksAsString()
RECURSIVE tracksAsString(_)
tracksAsString(ts) ==
    IF ts = <<>> THEN <<>>
    ELSE TrackLine(Head(ts)) \o tracksAsString(Tail(ts))

\* ------------------------------------------------------------ input files

\* The file-id fields tried: "SPLICE", "SPLICF", "XPLICE".
Tags == {FileID, <<83, 80, 76, 73, 67, 70>>, <<88, 80, 76, 73, 67, 69>>}

\* Bytes 0..13 of a file: the id, seven bytes that are not read, the count.
Header(tag, d) == tag \o <<0, 0, 0, 0, 0, 0, 0>> \o <<d>>

Take(s, n) == SubSeq(s, 1, IF n < Len(s) THEN n ELSE Len(s))

\* Hardware version and tempo of the fixtures: "0.808-alpha" at 120 and
\* "0.909" (zero padded) at 98.4.
HeaderSamples ==
    { [hw |-> <<48, 46, 56, 48, 56, 45, 97, 108, 112, 104, 97>>,
       tempo |-> <<0, 0, 240, 66>>],
      [hw |-> <<48, 46, 57, 48, 57, 0, 0, 0, 0, 0, 0>>,
       tempo |-> <<205, 204, 196, 66>>] }

\* Step arrays: the fixtures' 0/1 patterns and one with other byte values.
StepSamples ==
    << <<1, 0, 0, 0, 1, 0, 0, 0, 1, 0, 0, 0, 1, 0, 0, 0>>,
       <<0, 2, 1, 255, 1, 1, 0, 0, 255, 0, 2, 1, 0, 0, 0, 1>>,
       <<0, 0, 0, 0, 0, 0, 0, 0, 0, 0, 0, 0, 0, 0, 0, 0>>,
       <<1, 1, 1, 1, 1, 1, 1, 1, 1, 1, 1, 1, 1, 1, 1, 1>> >>

\* "kick-drum"
NameText == <<107, 105, 99, 107, 45, 100, 114, 117, 109>>

\* The ids of successive records: the order of fixture pattern_3, and one
\* with a repeated id and the largest id.
IdOrders == {<<40, 1, 3, 5, 12, 9>>, <<1, 1, 255, 0, 99, 2>>}

\* Record j of the stream (ids, n): its id is ids[j], its name has
\* (n + j - 1) mod (MaxNameLen + 1) bytes, its steps are a sample.
RecordOf(ids, n, j) ==
    [id |-> ids[j],
     name |-> Take(NameText, (n + j - 1) % (MaxNameLen + 1)),
     steps |-> StepSamples[((n + j) % 4) + 1]]

\* The record sequences tried: 0..MaxTracks records.
RecordSeqs ==
    { [j \in 1..k |-> RecordOf(ids, n, j)] :
      ids \in IdOrders, n \in 0..MaxNameLen, k \in 0..MaxTracks }

\* A record's bytes: id, three bytes that are skipped, the name's length,
\* the name, the steps.
RecordBytes(r) == <<r.id, 0, 0, 0, Len(r.name)>> \o r.name \o r.steps

RECURSIVE Flatten(_)
Flatten(rs) ==
    IF rs = <<>> THEN <<>> ELSE RecordBytes(Head(rs)) \o Flatten(Tail(rs))

\* The bytes after the count: the version field of 32 bytes (the version,
\* zero filled), the tempo, the records.
Stream(h, rs) ==
    h.hw \o [k \in 1..(32 - Len(h.hw)) |-> 0] \o h.tempo \o Flatten(rs)

\* The declared counts tried for a stream: counts that end inside the
\* header, and every count that ends inside or after the last record.
Counts(h, rs) ==
    LET sl == Len(Stream(h, rs))
    IN  {0, 10, 11, 35, 36} \cup
        (IF rs = <<>> THEN {}
         ELSE (sl - Len(RecordBytes(rs[Len(rs)])) + 1)..sl)

\* A file of declared count d holding d + t bytes after the count.
FileOf(tag, h, rs, d, t) ==
    Header(tag, d)
    \o Take(Stream(h, rs) \o [k \in 1..MaxTrail |-> 1], d + t)

NoFile == [exists |-> FALSE, data |-> <<>>]

Files ==
    {NoFile}
    \cup {[exists |-> TRUE, data |-> Take(Header(tag, 0), n)] :
            tag \in Tags, n \in 0..13}
    \cup UNION { UNION { { [exists |-> TRUE, data |-> FileOf(FileID, h, rs, d, t)] :
                           d \in Counts(h, rs), t \in -1..MaxTrail } :
                         rs \in RecordSeqs } :
                 h \in HeaderSamples }
    \cup { [exists |-> TRUE,
            data |-> FileOf(tag, CHOOSE h \in HeaderSamples : TRUE, <<>>, d, 0)] :
           tag \in Tags \ {FileID}, d \in {0, 36} }

\* ----------------------------------------------------------------- state

VARIABLES
    file,           \* the file at the path: whether it exists, its bytes
    pc,             \* where DecodeFile is
    contents,       \* the buffer ioutil.ReadFile returned
    capacity,       \* cap(contents)
    reptdBytesRem,  \* the declared count; len(remaining)
    p,              \* the Pattern being filled: hwver, tempo, tracks
    byteptr,        \* the track loop's cursor into remaining
    err,            \* DecodeFile's err variable
    ret,            \* what DecodeFile returned: a pattern or none, an error
    reads,          \* the positions of contents' array read so far
    starts,         \* byteptr at the start of each pass of the track loop
    trkstr          \* what tracksAsString returned

vars == <<file, pc, contents, capacity, reptdBytesRem, p, byteptr, err, ret,
          reads, starts, trkstr>>

EmptyPattern == [hwver |-> <<>>, tempo |-> 0, tracks |-> <<>>]

\* return nil, e
ReturnErr(e) == [p |-> <<>>, err |-> e]

\* return p, e
ReturnPattern(pat, e) == [p |-> <<pat>>, err |-> e]

NotReturned == [p |-> <<>>, err |-> "none"]

Init ==
    /\ file \in Files
    /\ pc = "start"
    /\ contents = <<>>
    /\ capacity = 0
    /\ reptdBytesRem = 0
    /\ p = EmptyPattern
    /\ byteptr = 0
    /\ err = NoErr
    /\ ret = NotReturned
    /\ reads = {}
    /\ starts = <<>>
    /\ trkstr = <<>>

\* contents, err := ioutil.ReadFile(path)
ReadFile ==
    /\ pc = "start"
    /\ IF file.exists
       THEN /\ contents' = file.data
            /\ capacity' \in ReadFileCaps(Len(file.data))
            /\ pc' = "validate"
            /\ UNCHANGED <<err, ret>>
       ELSE /\ err' = ErrReadFile
            /\ ret' = ReturnErr(ErrReadFile)
            /\ pc' = "returned"
            /\ UNCHANGED <<contents, capacity>>
    /\ UNCHANGED <<file, reptdBytesRem, p, byteptr, reads, starts, trkstr>>

\* if err = isValidateSplice(contents); err != nil { return nil, err }
Validate ==
    /\ pc = "validate"
    /\ LET e == isValidateSplice(contents, capacity)
       IN  /\ reads' = reads \cup ValidateReads(contents, capacity)
           /\ IF e = "panic"
              THEN pc' = "panicked" /\ UNCHANGED <<err, ret>>
              ELSE /\ err' = e
                   /\ IF e # NoErr
                      THEN pc' = "returned" /\ ret' = ReturnErr(e)
                      ELSE pc' = "count" /\ UNCHANGED ret
    /\ UNCHANGED <<file, contents, capacity, reptdBytesRem, p, byteptr,
                   starts, trkstr>>

\* The check of the remaining-bytes field against the bytes there are.
CheckCount ==
    /\ pc = "count"
    /\ IF ~IndexOK(posRemBytesFld, Len(contents))
       THEN /\ pc' = "panicked"
            /\ UNCHANGED <<reptdBytesRem, ret, reads>>
       ELSE /\ reptdBytesRem' = Mem(contents, posRemBytesFld)
            /\ reads' = reads \cup {posRemBytesFld}
            /\ IF CountTooLarge(Len(contents), reptdBytesRem')
               THEN pc' = "returned" /\ ret' = ReturnErr(ErrInvalidNumBytes)
               ELSE pc' = "header" /\ UNCHANGED ret
    /\ UNCHANGED <<file, contents, capacity, p, byteptr, err, starts, trkstr>>

\* remaining, the hardware version and the tempo.
DecodeHeader ==
    /\ pc = "header"
    /\ LET rcap == capacity - posStartOfData
           tlo == posStartOfData + posStartTempo
           rd == BinaryRead(Bytes(contents, tlo, tlo + szTempoFld))
       IN  IF ~SliceOK(posStartOfData, posStartOfData + reptdBytesRem, capacity)
              \/ ~SliceOK(0, szPlatFld, rcap)
           THEN pc' = "panicked" /\ UNCHANGED <<p, err, ret, reads, byteptr>>
           ELSE IF ~SliceOK(posStartTempo, posStartTempo + szTempoFld, rcap)
           THEN /\ pc' = "panicked"
                /\ p' = [p EXCEPT !.hwver =
                           TrimRightZero(Bytes(contents, posStartOfData,
                                               posStartOfData + szPlatFld))]
                /\ reads' = reads \cup
                     (posStartOfData..(posStartOfData + szPlatFld - 1))
                /\ UNCHANGED <<err, ret, byteptr>>
           ELSE /\ p' = [p EXCEPT
                           !.hwver =
                             TrimRightZero(Bytes(contents, posStartOfData,
                                                 posStartOfData + szPlatFld)),
                           !.tempo = rd.val]
                /\ reads' = reads
                     \cup (posStartOfData..(posStartOfData + szPlatFld - 1))
                     \cup (tlo..(tlo + szTempoFld - 1))
                /\ err' = rd.err
                /\ IF rd.err # NoErr
                   THEN /\ pc' = "returned"
                        /\ ret' = ReturnErr(rd.err)
                        /\ UNCHANGED byteptr
                   ELSE /\ pc' = "tracks"
                        /\ byteptr' = posFirstInstrument
                        /\ UNCHANGED ret
    /\ UNCHANGED <<file, contents, capacity, reptdBytesRem, starts, trkstr>>

\* One pass of the track loop: byteptr < len(remaining).
DecodeTrack ==
    /\ pc = "tracks"
    /\ byteptr < reptdBytesRem
    /\ LET r == DecodeTrackAt(contents, capacity, reptdBytesRem, byteptr)
       IN  /\ starts' = Append(starts, byteptr)
           /\ reads' = reads \cup r.reads
           /\ byteptr' = r.next
           /\ IF r.ok
              THEN /\ p' = [p EXCEPT !.tracks = Append(@, r.t)]
                   /\ UNCHANGED pc
              ELSE /\ pc' = "panicked"
                   /\ UNCHANGED p
    /\ UNCHANGED <<file, contents, capacity, reptdBytesRem, err, ret, trkstr>>

\* The loop ends; return p, err.
Return ==
    /\ pc = "tracks"
    /\ ~(byteptr < reptdBytesRem)
    /\ ret' = ReturnPattern(p, err)
    /\ pc' = "returned"
    /\ UNCHANGED <<file, contents, capacity, reptdBytesRem, p, byteptr, err,
                   reads, starts, trkstr>>

\* The caller renders the tracks of the pattern it got.
TracksAsString ==
    /\ pc = "returned"
    /\ ret.p # <<>>
    /\ trkstr' = tracksAsString(ret.p[1].tracks)
    /\ pc' = "printed"
    /\ UNCHANGED <<file, contents, capacity, reptdBytesRem, p, byteptr, err,
                   ret, reads, starts>>

Next ==
    \/ ReadFile
    \/ Validate
    \/ CheckCount
    \/ DecodeHeader
    \/ DecodeTrack
    \/ Return
    \/ TracksAsString

Spec == Init /\ [][Next]_vars

\* ---------------------------------------------------------------- claims

\* The input is a validated buffer: at least 14 bytes, the first six
\* "SPLICE".
ValidatedInput ==
    /\ file.exists
    /\ Len(file.data) >= 14
    /\ SubSeq(file.data, 1, 6) = <<83, 80, 76, 73, 67, 69>>

\* The declared count of a validated buffer: the byte at index 13.
Declared == file.data[14]

\* The bytes there are after the count.
Actual == Len(file.data) - 14

\* Byte i (from 0) of the file, 0 past its end.
FileByte(i) == IF i < Len(file.data) THEN file.data[i + 1] ELSE 0

\* DecodeFile returned a Pattern.
GotPattern == ret.p # <<>>

\* The hardware version and the tempo have been decoded.
HeaderDecoded == pc \in {"tracks", "printed"} \/ GotPattern \/ starts # <<>>

\* C1: for a validated buffer with declared count d, DecodeFile returns
\* ErrInvalidNumBytes if and only if (length - 14) < d; it then returns no
\* Pattern and has read nothing after the count: no hardware version, no
\* tempo, no track.  With (length - 14) >= d the error is never returned.
C1_InvalidByteCountIff ==
    ValidatedInput =>
        /\ Actual < Declared =>
              /\ pc \in {"start", "validate", "count", "returned"}
              /\ pc = "returned" => ret = ReturnErr(ErrInvalidNumBytes)
              /\ p = EmptyPattern /\ starts = <<>>
              /\ \A i \in reads : i <= 13
        /\ Actual >= Declared =>
              /\ ret.err # ErrInvalidNumBytes
              /\ pc = "count" => ENABLED CheckCount

C1_Witness ==
    /\ ValidatedInput /\ Actual < Declared /\ Actual > 0
    /\ pc = "returned" /\ ret.err = ErrInvalidNumBytes

\* The declared payload of data ends inside a track record: following the
\* records from payload offset c, one starts before the payload's end d and
\* its 4 + 1 + n + 16 bytes do not all lie before d.
RECURSIVE EndsInsideRecord(_, _, _)
EndsInsideRecord(data, d, c) ==
    IF c >= d THEN FALSE
    ELSE IF c + 4 >= d THEN TRUE
    ELSE IF c + 4 + 1 + data[14 + c + 4 + 1] + 16 > d THEN TRUE
    ELSE EndsInsideRecord(data, d, c + 4 + 1 + data[14 + c + 4 + 1] + 16)

\* C2: DecodeFile returns no partial Pattern.  A returned Pattern comes with
\* a nil error, and each of its tracks was decoded from bytes that lie
\* inside the declared payload; when the declared payload ends inside a
\* track record, no Pattern is returned at all.
C2_NoPartialPattern ==
    /\ GotPattern =>
          /\ ret.err = NoErr
          /\ pc \in {"returned", "printed"}
          /\ ret.p[1] = p
          /\ Len(starts) = Len(p.tracks)
          /\ \A k \in 1..Len(p.tracks) :
                /\ starts[k] >= 36
                /\ starts[k] + 4 + 1 + Len(p.tracks[k].name) + 16 <= Declared
                /\ Len(p.tracks[k].steps) = 16
    /\ (ValidatedInput /\ Actual >= Declared
        /\ EndsInsideRecord(file.data, Declared, 36)) =>
          /\ ~GotPattern
          /\ pc \notin {"printed"}
          /\ pc = "returned" => ret.err = "none"

C2_Witness ==
    /\ ValidatedInput /\ Actual >= Declared
    /\ EndsInsideRecord(file.data, Declared, 36)
    /\ pc = "panicked"
    /\ Len(p.tracks) >= 1
    /\ ~GotPattern

\* C3 as stated: the first track record is decoded at payload offset 22
\* (file offset 36): its id is the byte at payload offset 22, its name
\* length the byte at payload offset 26.
C3_FirstTrackAt22 ==
    (ValidatedInput /\ Actual >= Declared /\ Declared > 22) =>
        /\ starts # <<>> => starts[1] = 22
        /\ p.tracks # <<>> =>
              /\ p.tracks[1].id = FileByte(14 + 22)
              /\ Len(p.tracks[1].name) = FileByte(14 + 26)

\* C3 amended: the first track record is decoded at payload offset 36 (file
\* offset 50): with a declared payload longer than 36 bytes the loop starts
\* there, the first track's id is the byte at payload offset 36 and its
\* name length the byte at payload offset 40; with a declared payload of 36
\* bytes or fewer no track is decoded.
C3_FirstTrackAt36 ==
    (ValidatedInput /\ Actual >= Declared) =>
        /\ starts # <<>> => starts[1] = 36
        /\ p.tracks # <<>> =>
              /\ p.tracks[1].id = FileByte(14 + 36)
              /\ Len(p.tracks[1].name) = FileByte(14 + 40)
        /\ (pc = "tracks" /\ starts = <<>>) =>
              /\ byteptr = 36
              /\ Declared > 36 <=> ENABLED DecodeTrack
        /\ Declared <= 36 => starts = <<>>

C3_Witness ==
    /\ ValidatedInput
    /\ p.tracks # <<>>
    /\ p.tracks[1].id = 40
    /\ Len(p.tracks[1].name) = 2
    /\ FileByte(14 + 22) # 40

\* C4 as stated: the tempo is the little-endian value of the 4 bytes at
\* payload offsets 18..21 (file offsets 32..35).
C4_TempoAt18 ==
    HeaderDecoded =>
        p.tempo = FileByte(32) + 256 * FileByte(33) + 65536 * FileByte(34)
                  + 16777216 * FileByte(35)

\* C4 amended: the tempo is the little-endian value of the 4 bytes at
\* payload offsets 32..35 (file offsets 46..49), a position past the end of
\* the file reading as 0; it is a function of these bytes alone.
C4_TempoAt32 ==
    HeaderDecoded =>
        p.tempo = FileByte(46) + 256 * FileByte(47) + 65536 * FileByte(48)
                  + 16777216 * FileByte(49)

C4_Witness ==
    /\ HeaderDecoded
    /\ Len(file.data) >= 50
    /\ FileByte(46) = 205 /\ FileByte(49) = 66
    /\ p.tempo = 1120193741

\* C5: only the declared payload is read: for a validated buffer with
\* declared count d and at least 14 + d bytes, no byte of the file at or
\* after position 14 + d is read, and the hardware version decoded is the
\* one the file cut to its first 14 + d bytes decodes to.
C5_OnlyPayloadRead ==
    (ValidatedInput /\ Actual >= Declared) =>
        /\ \A i \in reads : i < Len(file.data) => i < 14 + Declared
        /\ HeaderDecoded =>
              p.hwver = TrimRightZero(
                          Bytes(SubSeq(file.data, 1, 14 + Declared), 14, 25))

\* C6: a buffer that starts with "SPLICE" and has fewer than 14 bytes fails
\* with ErrNoRemBytesFld: the count at index 13 is not read, nothing
\* panics, no Pattern is returned.
C6_MissingLengthField ==
    (/\ file.exists
     /\ Len(file.data) \in 6..13
     /\ SubSeq(file.data, 1, 6) = <<83, 80, 76, 73, 67, 69>>) =>
        /\ pc \in {"start", "validate", "returned"}
        /\ pc = "returned" => ret = ReturnErr(ErrNoRemBytesFld)
        /\ 13 \notin reads

C6_Witness ==
    /\ file.exists
    /\ file.data = <<83, 80, 76, 73, 67, 69>>
    /\ pc = "returned"
    /\ ret.err = ErrNoRemBytesFld

\* C7: a non-empty buffer whose first 6 bytes are not exactly "SPLICE"
\* fails with ErrBadFileType, whatever its length; nothing panics.  Buffers
\* of 1 to 5 bytes are included: the six bytes sliced are the buffer's own
\* and the zeroed rest of the allocation ioutil.ReadFile made.
C7_BadFileType ==
    (/\ file.exists
     /\ Len(file.data) >= 1
     /\ \/ Len(file.data) < 6
        \/ SubSeq(file.data, 1, 6) # <<83, 80, 76, 73, 67, 69>>) =>
        /\ pc \in {"start", "validate", "returned"}
        /\ pc = "returned" => ret = ReturnErr(ErrBadFileType)

C7_Witness ==
    /\ file.exists
    /\ Len(file.data) \in 1..5
    /\ file.data[1] = 83
    /\ pc = "returned"
    /\ ret.err = ErrBadFileType

\* C8: an empty buffer fails with ErrEmptySpliceFile, which is none of the
\* other three error values; no Pattern is returned and no byte is read.
C8_EmptyFile ==
    (file.exists /\ Len(file.data) = 0) =>
        /\ pc \in {"start", "validate", "returned"}
        /\ pc = "returned" =>
              /\ ret = ReturnErr(ErrEmptySpliceFile)
              /\ ret.err \notin
                   {ErrBadFileType, ErrNoRemBytesFld, ErrInvalidNumBytes}
        /\ reads = {}

C8_Witness ==
    /\ file.exists
    /\ file.data = <<>>
    /\ pc = "returned"
    /\ ret.err = ErrEmptySpliceFile

\* C9: records are decoded one after the other from one cursor and kept in
\* stream order: the first starts at posFirstInstrument, record k + 1
\* starts at start(k) + 4 + 1 + n(k) + 16 with n(k) the name-length byte of
\* record k, and track k holds the id, the name and the steps of record k.
C9_Sequential ==
    /\ Len(p.tracks) <= Len(starts)
    /\ Len(starts) <= Len(p.tracks) + 1
    /\ \A k \in 1..Len(starts) :
          k > 1 => starts[k] = starts[k - 1] + 4 + 1
                               + FileByte(14 + starts[k - 1] + 4) + 16
    /\ \A k \in 1..Len(p.tracks) :
          LET at == 14 + starts[k]
              n == FileByte(at + 4)
          IN  /\ p.tracks[k].id = FileByte(at)
              /\ p.tracks[k].name = [i \in 1..n |-> FileByte(at + 4 + i)]
              /\ p.tracks[k].steps =
                   [i \in 1..16 |-> FileByte(at + 4 + n + i)]
    /\ (pc = "tracks" /\ p.tracks # <<>>) =>
          byteptr = starts[Len(starts)] + 4 + 1
                    + Len(p.tracks[Len(p.tracks)].name) + 16

C9_Witness ==
    /\ GotPattern
    /\ Len(ret.p[1].tracks) >= 3
    /\ ret.p[1].tracks[1].id = 40
    /\ ret.p[1].tracks[2].id = 1
    /\ ret.p[1].tracks[3].id = 3
    /\ Len(ret.p[1].tracks[1].name) # Len(ret.p[1].tracks[2].name)

\* The length of the line of track t: "(", the id's digits, ") ", the name,
\* a tab, "|", 16 cells, 4 "|", a newline.
LineLen(t) ==
    1 + (IF t.id < 10 THEN 1 ELSE IF t.id < 100 THEN 2 ELSE 3) + 2
    + Len(t.name) + 1 + 1 + 16 + 4 + 1

\* Where the line of track k starts in the rendering of ts (from 0).
RECURSIVE LineStart(_, _)
LineStart(ts, k) ==
    IF k <= 1 THEN 0 ELSE LineStart(ts, k - 1) + LineLen(ts[k - 1])

\* C10: the tracks are rendered one line each, in order; the step part of a
\* line is "|", 16 cells and 4 more "|", then a newline: cell j is "x" if
\* step j is 1 and "-" for any other value, and a "|" follows cells 4, 8,
\* 12 and 16.
C10_StepCells ==
    pc = "printed" =>
        LET ts == ret.p[1].tracks
        IN  /\ Len(trkstr) = LineStart(ts, Len(ts) + 1)
            /\ \A k \in 1..Len(ts) :
                  LET o == LineStart(ts, k) + LineLen(ts[k]) - 22
                  IN  /\ trkstr[LineStart(ts, k) + 1] = 40
                      /\ trkstr[o] = 9
                      /\ trkstr[o + 1] = 124
                      /\ \A j \in 1..16 :
                            trkstr[o + 1 + j + ((j - 1) \div 4)] =
                               IF ts[k].steps[j] = 1 THEN 120 ELSE 45
                      /\ \A g \in 1..4 : trkstr[o + 1 + 5 * g] = 124
                      /\ trkstr[o + 22] = 10

C10_Witness ==
    /\ pc = "printed"
    /\ \E k \in 1..Len(ret.p[1].tracks) :
          /\ ret.p[1].tracks[k].steps[2] = 2
          /\ ret.p[1].tracks[k].steps[3] = 1
          /\ ret.p[1].tracks[k].steps[4] = 255
    /\ Len(ret.p[1].tracks) >= 2

====
